---- MODULE Spec2Model ----
(***************************************************************************)
(* A model of the bounded edit-distance search engine                      *)
(* (in3120/editsearchengine.py) and of the posting list merger             *)
(* (in3120/postingsmerger.py).                                             *)
(*                                                                         *)
(* Strings are sequences of one-character strings.  A trie is identified   *)
(* with the set of strings stored in it; a trie node is identified with    *)
(* the path (a string) that leads to it from the trie's root.              *)
(*                                                                         *)
(* The collaborators EditTable, Trie and Sieve are imported by             *)
(* editsearchengine.py (lines 10-14) and are modelled from their           *)
(* documented contract; the engine itself is modelled from its code.       *)
(***************************************************************************)
EXTENDS Integers, Sequences, FiniteSets, TLC

VARIABLES
    trie,       \* the strings stored in self.__trie
    phase,      \* "idle" | "search" | "done" | "error": position inside evaluate
    query,      \* the canonical query string (line 49)
    options,    \* the options dictionary the client passed
    opts,       \* the clamped options (lines 54-65, 83)
    head,       \* query[:first_n] (line 68)
    tail,       \* query[first_n:] (line 69)
    table,      \* the EditTable object (line 92)
    counter,    \* the callback's candidate counter (line 98)
    sieve,      \* the Sieve object (line 87)
    stack,      \* the call stack of __dfs, innermost frame last
    result,     \* the sequence of records yielded by evaluate (lines 118-119)
    err,        \* the exception evaluate raised, or "none"
    stream,     \* history: the candidates handed to sieve.sift, in order
    aborted,    \* history: callback returned False at line 103
    runs,       \* history: summaries of the completed calls of evaluate
    iter1,      \* PostingsMerger: what is left of the first iterator
    iter2,      \* PostingsMerger: what is left of the second iterator
    p1,         \* PostingsMerger: local p1 (None or a posting)
    p2,         \* PostingsMerger: local p2 (None or a posting)
    out,        \* PostingsMerger: the postings yielded so far
    mpc,        \* PostingsMerger: position inside the generator
    in1,        \* PostingsMerger: the first input list, as given
    in2,        \* PostingsMerger: the second input list, as given
    number,     \* VariableByteCodec: the number given to encode
    prior,      \* VariableByteCodec: the destination buffer before encode
    buffer,     \* VariableByteCodec: the destination buffer (a bitarray)
    encoded,    \* VariableByteCodec: what encode returned
    decoded,    \* VariableByteCodec: what decode returned
    cpc         \* VariableByteCodec: "idle" | "start" | "encoded" | "decoded"

searchVars == <<trie, phase, query, options, opts, head, tail, table, counter, sieve,
                stack, result, err, stream, aborted, runs>>
mergeVars == <<iter1, iter2, p1, p2, out, mpc, in1, in2>>
codecVars == <<number, prior, buffer, encoded, decoded, cpc>>
vars == <<searchVars, mergeVars, codecVars>>

----------------------------------------------------------------------------
(* Bounds of the model. *)

MaxNodes == 3         \* most nodes of the trie, its root not counted
MaxQueryLen == 2      \* longest canonical query
MaxCalls == 2         \* most calls of evaluate compared with each other
MaxDocId == 3         \* largest document identifier in a posting list

Alphabet == {"a", "b"}

(* Program constants. *)
CandidateLen == 10            \* "?" * 10
DefaultUpperBound == 1
DefaultCandidateCount == 10000
DefaultHitCount == 10
MaxHitCount == 100
DefaultFirstN == 0

Pad == "?"
None == <<"None">>            \* the absent trie node (no string holds "None")
Absent == <<>>                \* a key the options dictionary does not hold

Max(a, b) == IF a >= b THEN a ELSE b
Min(a, b) == IF a <= b THEN a ELSE b

StringsUpTo(n) == UNION {[1..k -> Alphabet] : k \in 0..n}
Queries == StringsUpTo(MaxQueryLen)

IsPrefix(p, s) == Len(p) <= Len(s) /\ SubSeq(s, 1, Len(p)) = p

(* The sets of paths of the tries that have at most n nodes below the root. *)
RECURSIVE Shapes(_)
Shapes(n) ==
    IF n = 0 THEN {{}}
    ELSE Shapes(n - 1) \cup
         UNION {UNION {{T \cup {p \o <<c>>} : c \in Alphabet} : p \in T \cup {<<>>}} :
                T \in Shapes(n - 1)}

Leaves(T) == {p \in T : \A c \in Alphabet : p \o <<c>> \notin T}

(* The sets of stored strings of those tries: every leaf ends a string. *)
Vocabularies ==
    UNION {{F \in SUBSET T : Leaves(T) \subseteq F} : T \in Shapes(MaxNodes)}

----------------------------------------------------------------------------
(* Trie: the consumed interface. *)

transitions(node) == {c \in Alphabet : \E s \in trie : IsPrefix(node \o <<c>>, s)}

consume(node, prefix) ==
    IF \E s \in trie : IsPrefix(node \o prefix, s) \/ (node \o prefix = <<>>)
    THEN node \o prefix
    ELSE None

is_final(node) == node \in trie

get_meta(node) == node

----------------------------------------------------------------------------
(* EditTable: the incremental edit distance table. *)

EditTable(q, candidate) ==
    [_query |-> q,
     _candidate |-> candidate,
     _table |-> [i \in 0..Len(q) |-> [j \in 0..Len(candidate) |->
                    IF j = 0 THEN i ELSE IF i = 0 THEN j ELSE 0]],
     _built |-> 0]

Column(t, j) ==
    LET q == t._query
        f[i \in 0..Len(q)] ==
            IF i = 0 THEN t._table[0][j]
            ELSE Min(Min(f[i - 1] + 1, t._table[i][j - 1] + 1),
                     t._table[i - 1][j - 1]
                        + (IF q[i] = t._candidate[j] THEN 0 ELSE 1))
    IN f

update(t, j) ==
    LET col == Column(t, j)
    IN [t EXCEPT !._table = [i \in 0..Len(t._query) |->
                                [t._table[i] EXCEPT ![j] = col[i]]],
                 !._built = j]

update2(t, j, symbol) ==
    update([t EXCEPT !._candidate[j + 1] = symbol], j + 1)

distance(t) == t._table[Len(t._query)][t._built]

min_possible_distance(t, j) ==
    LET S == {t._table[i][j] : i \in 0..Len(t._query)}
    IN CHOOSE m \in S : \A x \in S : m <= x

----------------------------------------------------------------------------
(* Scores.  A score is kept as the exact rational num / den with den > 0;   *)
(* the lopresti score 1 / exp(x) is kept as its exponent -x, which orders   *)
(* the scores of one search the same way.                                   *)

Score(fn, num, den) == [fn |-> fn, num |-> num, den |-> den]

ScoreLess(s, t) == s.num * t.den < t.num * s.den

Scorers == {"negated", "normalized", "lopresti"}

(* The divisor a scorer uses; 1 where it does not divide. *)
Divisor(name, first_n, d, q, c) ==
    CASE name = "negated" -> 1
      [] name = "normalized" -> first_n + Max(Len(q), Len(c))
      [] name = "lopresti" -> first_n + Max(Len(q), Len(c)) - d

scorer(name, first_n, d, q, c) ==
    CASE name = "negated" -> Score("value", 0 - d, 1)
      [] name = "normalized" ->
            Score("value", Divisor(name, first_n, d, q, c) - d,
                  Divisor(name, first_n, d, q, c))
      [] name = "lopresti" ->
            Score("exp", 0 - d, Divisor(name, first_n, d, q, c))

----------------------------------------------------------------------------
(* Sieve: the bounded top-K collector, kept in descending score order,      *)
(* the earlier of two equal scores first.                                   *)

RECURSIVE Insert(_, _)
Insert(s, e) ==
    IF s = <<>> THEN <<e>>
    ELSE IF ScoreLess(Head(s).score, e.score) THEN <<e>> \o s
    ELSE <<Head(s)>> \o Insert(Tail(s), e)

sift(s, size, score, payload) ==
    LET all == Insert(s, [score |-> score, payload |-> payload])
    IN SubSeq(all, 1, Min(size, Len(all)))

winners(s) == s

----------------------------------------------------------------------------
(* EditSearchEngine.evaluate. *)

(* options.get(key, default): an option is <<>> (key absent) or <<value>>. *)
Get(o, key, default) == IF o[key] = Absent THEN default ELSE o[key][1]

OptionKeys == {"upper_bound", "candidate_count", "hit_count", "first_n", "scoring"}

(* The values a client passes: inside and outside each option's domain. *)
OptionValues ==
    [upper_bound |-> {-1, 0},
     candidate_count |-> {0, 2},
     hit_count |-> {0, 101},
     first_n |-> {-1, 1, 3},
     scoring |-> {"negated", "lopresti", "levenshtein"}]

NoOptions == [k \in OptionKeys |-> Absent]

(* The options dictionaries of the model: the empty one, those with one    *)
(* key, and two where every number is outside its domain.                  *)
Options ==
    {NoOptions}
    \cup UNION {{[NoOptions EXCEPT ![k] = <<v>>] : v \in OptionValues[k]} :
                k \in OptionKeys}
    \cup {[upper_bound |-> <<-1>>, candidate_count |-> <<0>>, hit_count |-> <<0>>,
           first_n |-> <<-1>>, scoring |-> Absent],
          [upper_bound |-> <<-1>>, candidate_count |-> <<0>>, hit_count |-> <<101>>,
           first_n |-> <<3>>, scoring |-> <<"negated">>]}

ClampNoCeiling(q, o) ==
    [upper_bound |-> Max(0, Get(o, "upper_bound", DefaultUpperBound)),
     candidate_count |-> Max(1, Get(o, "candidate_count", DefaultCandidateCount)),
     hit_count |-> Max(1, Get(o, "hit_count", DefaultHitCount)),
     first_n |-> Max(0, Min(Len(q), Get(o, "first_n", DefaultFirstN))),
     scoring |-> Get(o, "scoring", "normalized")]

(* Lines 54-65 and 83: the options, clamped, with their defaults. *)
Clamp(q, o) ==
    [upper_bound |-> Max(0, Get(o, "upper_bound", DefaultUpperBound)),
     candidate_count |-> Max(1, Get(o, "candidate_count", DefaultCandidateCount)),
     hit_count |-> Max(1, Min(MaxHitCount, Get(o, "hit_count", DefaultHitCount))),
     first_n |-> Max(0, Min(Len(q), Get(o, "first_n", DefaultFirstN))),
     scoring |-> Get(o, "scoring", "normalized")]

Frame(node, level) ==
    [node |-> node, level |-> level, pc |-> "enter", todo |-> {},
     original_char |-> Pad]

ExhaustedLate(n, candidate_count) == n > candidate_count

(* Line 102: the callback has scored candidate_count candidates. *)
Exhausted(n, candidate_count) == n >= candidate_count

WithinBoundExact(d, upper_bound) == d = upper_bound

(* Line 105: the candidate is close enough to be scored. *)
WithinBound(d, upper_bound) == d <= upper_bound

InitialStackUnchecked(root) == <<Frame(root, 0)>>

(* Lines 114-115: __dfs is called on the root, if there is one. *)
InitialStack(root) == IF root # None THEN <<Frame(root, 0)>> ELSE <<>>

Top == stack[Len(stack)]
Pop == SubSeq(stack, 1, Len(stack) - 1)
SetTop(f) == [stack EXCEPT ![Len(stack)] = f]

(* Lines 47-115: the prologue of evaluate, up to the first call of __dfs.   *)
(* q is the canonical query the tokenizer and normalizer produce.           *)
Evaluate(q, o) ==
    LET c == Clamp(q, o)
        h == SubSeq(q, 1, c.first_n)
        t == SubSeq(q, c.first_n + 1, Len(q))
        root == IF c.first_n = 0 THEN <<>> ELSE consume(<<>>, h)
    IN /\ phase = "idle"
       /\ query' = q
       /\ options' = o
       /\ opts' = c
       /\ head' = h
       /\ tail' = t
       /\ counter' = 0
       /\ sieve' = <<>>
       /\ table' = EditTable(t, [k \in 1..CandidateLen |-> Pad])
       /\ result' = <<>>
       /\ stream' = <<>>
       /\ aborted' = FALSE
       /\ IF c.scoring \notin Scorers
          THEN /\ phase' = "error"
               /\ err' = "AssertionError"
               /\ stack' = <<>>
          ELSE /\ phase' = "search"
               /\ err' = "none"
               /\ stack' = InitialStack(root)
       /\ UNCHANGED <<trie, runs, mergeVars, codecVars>>

(* The candidate string handed to the callback at line 139. *)
Candidate(t) == t._candidate

(* Lines 138-140: __dfs is entered; a final node is handed to the callback  *)
(* (lines 99-111).                                                          *)
DfsEnter ==
    /\ phase = "search"
    /\ stack # <<>>
    /\ Top.pc = "enter"
    /\ LET node == Top.node
           d == distance(table)
           c == Candidate(table)
           go == SetTop([Top EXCEPT !.pc = "loop", !.todo = transitions(node)])
       IN IF ~is_final(node)
          THEN /\ stack' = go
               /\ UNCHANGED <<phase, err, counter, sieve, stream, aborted>>
          ELSE IF Exhausted(counter, opts.candidate_count)
          THEN /\ stack' = Pop
               /\ aborted' = TRUE
               /\ UNCHANGED <<phase, err, counter, sieve, stream>>
          ELSE IF WithinBound(d, opts.upper_bound)
          THEN IF Divisor(opts.scoring, opts.first_n, d, query, c) = 0
               THEN /\ phase' = "error"
                    /\ err' = "ZeroDivisionError"
                    /\ stack' = <<>>
                    /\ UNCHANGED <<counter, sieve, stream, aborted>>
               ELSE /\ sieve' = sift(sieve, opts.hit_count,
                                     scorer(opts.scoring, opts.first_n, d, query, c),
                                     [distance |-> d, candidate |-> c,
                                      meta |-> get_meta(node)])
                    /\ counter' = counter + 1
                    /\ stream' = Append(stream, [node |-> node, distance |-> d,
                                                 candidate |-> c])
                    /\ stack' = go
                    /\ UNCHANGED <<phase, err, aborted>>
          ELSE /\ stack' = Pop
               /\ UNCHANGED <<phase, err, counter, sieve, stream, aborted>>
    /\ UNCHANGED <<trie, query, options, opts, head, tail, table, result, runs,
                   mergeVars, codecVars>>

(* Lines 143-153: the loop takes the next child, saves the candidate's      *)
(* character, updates the table and calls __dfs on the child.               *)
DfsChild ==
    /\ phase = "search"
    /\ stack # <<>>
    /\ Top.pc = "loop"
    /\ \E ch \in Top.todo :
        LET level == Top.level
            orig == IF level < Len(table._candidate)
                    THEN table._candidate[level + 1] ELSE Pad
            child == consume(Top.node, <<ch>>)
        IN /\ table' = update2(table, level, ch)
           /\ stack' = Append(SetTop([Top EXCEPT !.pc = "restore",
                                                 !.todo = Top.todo \ {ch},
                                                 !.original_char = orig]),
                              Frame(child, level + 1))
    /\ UNCHANGED <<trie, phase, query, options, opts, head, tail, counter, sieve,
                   result, err, stream, aborted, runs, mergeVars, codecVars>>

DfsRestoreSkipped ==
    /\ phase = "search"
    /\ stack # <<>>
    /\ Top.pc = "restore"
    /\ stack' = SetTop([Top EXCEPT !.pc = "loop"])
    /\ UNCHANGED <<trie, phase, query, options, opts, head, tail, table, counter,
                   sieve, result, err, stream, aborted, runs, mergeVars, codecVars>>

(* Line 155: the child's call has returned (its result is dropped, line     *)
(* 153); the candidate's character is put back.                             *)
DfsRestore ==
    /\ phase = "search"
    /\ stack # <<>>
    /\ Top.pc = "restore"
    /\ table' = [table EXCEPT !._candidate[Top.level + 1] = Top.original_char]
    /\ stack' = SetTop([Top EXCEPT !.pc = "loop"])
    /\ UNCHANGED <<trie, phase, query, options, opts, head, tail, counter, sieve,
                   result, err, stream, aborted, runs, mergeVars, codecVars>>

(* Line 157: the loop is over, __dfs returns True. *)
DfsReturn ==
    /\ phase = "search"
    /\ stack # <<>>
    /\ Top.pc = "loop"
    /\ Top.todo = {}
    /\ stack' = Pop
    /\ UNCHANGED <<trie, phase, query, options, opts, head, tail, table, counter,
                   sieve, result, err, stream, aborted, runs, mergeVars, codecVars>>

(* What a completed call of evaluate leaves behind for later comparison. *)
Summary ==
    [query |-> query, upper_bound |-> opts.upper_bound, first_n |-> opts.first_n,
     sifted |-> {stream[k] : k \in 1..Len(stream)},
     matches |-> {head \o winners(sieve)[k].payload.candidate :
                    k \in 1..Len(winners(sieve))},
     truncated |-> aborted \/ Len(stream) > opts.hit_count]

(* Lines 118-119: the winners are emitted, head put before each match. *)
Emit ==
    /\ phase = "search"
    /\ stack = <<>>
    /\ result' = [k \in 1..Len(winners(sieve)) |->
                    [score |-> winners(sieve)[k].score,
                     distance |-> winners(sieve)[k].payload.distance,
                     match |-> head \o winners(sieve)[k].payload.candidate,
                     meta |-> winners(sieve)[k].payload.meta]]
    /\ phase' = "done"
    /\ runs' = runs \cup {Summary}
    /\ UNCHANGED <<trie, query, options, opts, head, tail, table, counter, sieve,
                   stack, err, stream, aborted, mergeVars, codecVars>>

IdleTable == EditTable(<<>>, <<>>)
IdleOpts == Clamp(<<>>, NoOptions)

MergeIdle ==
    /\ iter1 = <<>> /\ iter2 = <<>> /\ p1 = <<>> /\ p2 = <<>>
    /\ out = <<>> /\ mpc = "idle" /\ in1 = <<>> /\ in2 = <<>>

CodecIdle ==
    /\ number = 0 /\ prior = <<>> /\ buffer = <<>>
    /\ encoded = 0 /\ decoded = <<>> /\ cpc = "idle"

(* The engine after construction (lines 29-32), over any small trie. *)
Init ==
    /\ trie \in Vocabularies
    /\ phase = "idle"
    /\ query = <<>>
    /\ options = NoOptions
    /\ opts = IdleOpts
    /\ head = <<>>
    /\ tail = <<>>
    /\ table = IdleTable
    /\ counter = 0
    /\ sieve = <<>>
    /\ stack = <<>>
    /\ result = <<>>
    /\ err = "none"
    /\ stream = <<>>
    /\ aborted = FALSE
    /\ runs = {}
    /\ MergeIdle
    /\ CodecIdle

(* A client calls evaluate with some query and some options. *)
Search ==
    /\ phase = "idle"
    /\ \E q \in Queries, o \in Options : Evaluate(q, o)

Next ==
    \/ Search
    \/ DfsEnter
    \/ DfsChild
    \/ DfsRestore
    \/ DfsReturn
    \/ Emit

Spec == Init /\ [][Next]_vars

(* A client that asks again: the options of the first call set upper_bound  *)
(* and first_n; each later call repeats the query with upper_bound raised   *)
(* by one, or without the anchor.                                           *)
PairOptions ==
    {[NoOptions EXCEPT !.upper_bound = <<b>>, !.first_n = <<n>>] :
        b \in 0..1, n \in 0..MaxQueryLen}

Related(o) ==
    {[o EXCEPT !.upper_bound = <<o.upper_bound[1] + 1>>],
     [o EXCEPT !.first_n = <<0>>]}

FirstCall ==
    /\ phase = "idle"
    /\ runs = {}
    /\ \E q \in Queries, o \in PairOptions : Evaluate(q, o)

LaterCall ==
    /\ phase = "idle"
    /\ runs # {}
    /\ \E o \in Related(options) : Evaluate(query, o)

(* The generator is exhausted; the engine is ready for another call. *)
Again ==
    /\ phase = "done"
    /\ Cardinality(runs) < MaxCalls
    /\ phase' = "idle"
    /\ UNCHANGED <<trie, query, options, opts, head, tail, table, counter, sieve,
                   stack, result, err, stream, aborted, runs, mergeVars, codecVars>>

NextPair ==
    \/ FirstCall
    \/ LaterCall
    \/ DfsEnter
    \/ DfsChild
    \/ DfsRestore
    \/ DfsReturn
    \/ Emit
    \/ Again

SpecPair == Init /\ [][NextPair]_vars

----------------------------------------------------------------------------
(* The properties checked of evaluate. *)

(* The Levenshtein distance of two strings, by its defining recursion. *)
RECURSIVE Lev(_, _)
Lev(a, b) ==
    IF a = <<>> THEN Len(b)
    ELSE IF b = <<>> THEN Len(a)
    ELSE Min(Min(Lev(Tail(a), b) + 1, Lev(a, Tail(b)) + 1),
             Lev(Tail(a), Tail(b)) + (IF Head(a) = Head(b) THEN 0 ELSE 1))

(* The part of a stored string below the anchored root. *)
Below(node) == SubSeq(node, opts.first_n + 1, Len(node))

SiftedNodes == {stream[k].node : k \in 1..Len(stream)}

(* C1: soundness.  When an unanchored search whose candidate_count cannot   *)
(* truncate is over, every stored string within upper_bound of the query    *)
(* has been handed to the callback and sifted.                              *)
C1_Soundness ==
    (phase = "done" /\ opts.first_n = 0 /\ opts.candidate_count >= Cardinality(trie))
        => \A V \in trie : Lev(query, V) <= opts.upper_bound => V \in SiftedNodes

(* C2: no false or malformed results.  Every record evaluate yields has     *)
(* match = head + c for the string c spelled by the path from the anchored  *)
(* root to a final node, and its distance is the Levenshtein distance of    *)
(* the query's tail and c, which is at most upper_bound.                    *)
C2_WellFormedResults ==
    phase = "done" =>
        \A k \in 1..Len(result) :
            \E V \in trie :
                /\ IsPrefix(head, V)
                /\ result[k].match = head \o Below(V)
                /\ result[k].distance = Lev(tail, Below(V))
                /\ result[k].distance <= opts.upper_bound

(* C3: global early abort.  Once the callback has returned False because    *)
(* candidate_count candidates were sifted, __dfs is called on no further    *)
(* node: the call stack only unwinds.                                       *)
C3_GlobalAbort == [][aborted => Len(stack') <= Len(stack)]_vars

(* C4: the candidates sifted never outnumber the clamped candidate_count;   *)
(* with candidate_count = 1 the result has at most one entry.               *)
C4_CandidateCount ==
    /\ counter = Len(stream)
    /\ Len(stream) <= opts.candidate_count
    /\ (phase = "done" /\ opts.candidate_count = 1) => Len(result) <= 1

(* C4's case: candidate_count = 1 cut a search short in which two stored    *)
(* strings were within the bound.                                           *)
C4_Witness ==
    /\ phase = "done"
    /\ opts.candidate_count = 1
    /\ aborted
    /\ Len(result) = 1
    /\ Cardinality({V \in trie : Lev(tail, Below(V)) <= opts.upper_bound}) >= 2

Present(key) == options[key] # Absent
Value(key) == options[key][1]

(* Some option of the call is outside its domain. *)
OutOfDomain ==
    \/ Present("upper_bound") /\ Value("upper_bound") < 0
    \/ Present("candidate_count") /\ Value("candidate_count") < 1
    \/ Present("hit_count") /\ Value("hit_count") \notin 1..MaxHitCount
    \/ Present("first_n") /\ Value("first_n") \notin 0..Len(query)
    \/ Present("scoring") /\ Value("scoring") \notin Scorers

(* The value of lo..hi nearest to v. *)
Nearest(v, lo, hi) == IF v < lo THEN lo ELSE IF v > hi THEN hi ELSE v

AbsentPrefix == opts.first_n > 0 /\ \A s \in trie : ~IsPrefix(head, s)

C7_NormalizedScore ==
    opts.scoring = "normalized" =>
        \A k \in 1..Len(sieve) :
            LET d == sieve[k].payload.distance
                c == Below(sieve[k].payload.meta)
                den == opts.first_n + Max(Len(tail), Len(c))
            IN sieve[k].score.num * den = (den - d) * sieve[k].score.den

(* Two completed calls with the same query, neither truncated by            *)
(* candidate_count or hit_count.                                            *)
Comparable(r, t) == r.query = t.query /\ ~r.truncated /\ ~t.truncated

(* C8: anchoring can only reduce recall.  The match strings returned with   *)
(* first_n = k > 0 are among those returned with first_n = 0, for the same  *)
(* query and upper_bound.                                                   *)
C8_AnchorSubset ==
    \A r \in runs, t \in runs :
        (Comparable(r, t) /\ r.upper_bound = t.upper_bound
            /\ r.first_n > 0 /\ t.first_n = 0)
        => r.matches \subseteq t.matches

(* C9: monotonic bound.  For the same query and first_n, the candidates     *)
(* sifted with upper_bound = b are among those sifted with b + 1.           *)
C9_MonotonicBound ==
    \A r \in runs, t \in runs :
        (Comparable(r, t) /\ r.first_n = t.first_n
            /\ t.upper_bound = r.upper_bound + 1)
        => r.sifted \subseteq t.sifted

(* C9's case: the larger bound kept what the smaller one found and added    *)
(* to it.                                                                   *)
C9_Witness ==
    \E r \in runs, t \in runs :
        /\ Comparable(r, t) /\ r.first_n = t.first_n
        /\ t.upper_bound = r.upper_bound + 1
        /\ r.sifted # {}
        /\ r.sifted # t.sifted

----------------------------------------------------------------------------
(* PostingsMerger.union. *)

NoPosting == <<>>             \* None, for p1 and p2
Posting(id, tf) == [document_id |-> id, term_frequency |-> tf]

(* The posting list of the documents of S, in increasing order. *)
RECURSIVE PostingList(_, _)
PostingList(S, tf) ==
    IF S = {} THEN <<>>
    ELSE LET m == CHOOSE x \in S : \A y \in S : x <= y
         IN <<Posting(m, tf)>> \o PostingList(S \ {m}, tf)

(* next(it), caught: the posting, or None when the iterator is exhausted. *)
NextOf(it) == IF it = <<>> THEN NoPosting ELSE <<Head(it)>>
RestOf(it) == IF it = <<>> THEN <<>> ELSE Tail(it)

(* Lines 61-69: the first posting of each list. *)
UnionStart ==
    /\ mpc = "start"
    /\ p1' = NextOf(iter1)
    /\ iter1' = RestOf(iter1)
    /\ p2' = NextOf(iter2)
    /\ iter2' = RestOf(iter2)
    /\ mpc' = "loop"
    /\ UNCHANGED <<out, in1, in2, searchVars, codecVars>>

UnionLoopNoSkip ==
    /\ mpc = "loop"
    /\ p1 # NoPosting
    /\ p2 # NoPosting
    /\ IF p1[1].document_id <= p2[1].document_id
       THEN /\ out' = Append(out, p1[1])
            /\ p1' = NextOf(iter1)
            /\ iter1' = RestOf(iter1)
            /\ UNCHANGED <<p2, iter2>>
       ELSE /\ out' = Append(out, p2[1])
            /\ p2' = NextOf(iter2)
            /\ iter2' = RestOf(iter2)
            /\ UNCHANGED <<p1, iter1>>
    /\ UNCHANGED <<mpc, in1, in2, searchVars, codecVars>>

(* Lines 72-98: one round of the loop, up to and including its yield and    *)
(* the advance that follows it.                                             *)
UnionLoop ==
    /\ mpc = "loop"
    /\ p1 # NoPosting
    /\ p2 # NoPosting
    /\ IF p1[1].document_id = p2[1].document_id
       THEN /\ out' = Append(out, p1[1])
            /\ p1' = NextOf(iter1)
            /\ iter1' = RestOf(iter1)
            /\ p2' = NextOf(iter2)
            /\ iter2' = RestOf(iter2)
       ELSE IF p1[1].document_id < p2[1].document_id
       THEN /\ out' = Append(out, p1[1])
            /\ p1' = NextOf(iter1)
            /\ iter1' = RestOf(iter1)
            /\ UNCHANGED <<p2, iter2>>
       ELSE /\ out' = Append(out, p2[1])
            /\ p2' = NextOf(iter2)
            /\ iter2' = RestOf(iter2)
            /\ UNCHANGED <<p1, iter1>>
    /\ UNCHANGED <<mpc, in1, in2, searchVars, codecVars>>

(* Lines 101-103: the loop is over; what is left of the first list. *)
UnionRest1 ==
    /\ mpc = "loop"
    /\ p1 = NoPosting \/ p2 = NoPosting
    /\ IF p1 # NoPosting
       THEN /\ out' = out \o p1 \o iter1
            /\ iter1' = <<>>
       ELSE UNCHANGED <<out, iter1>>
    /\ mpc' = "rest"
    /\ UNCHANGED <<p1, p2, iter2, in1, in2, searchVars, codecVars>>

(* Lines 105-107: what is left of the second list; the generator ends. *)
UnionRest2 ==
    /\ mpc = "rest"
    /\ IF p2 # NoPosting
       THEN /\ out' = out \o p2 \o iter2
            /\ iter2' = <<>>
       ELSE UNCHANGED <<out, iter2>>
    /\ mpc' = "done"
    /\ UNCHANGED <<p1, p2, iter1, in1, in2, searchVars, codecVars>>

DocIds == 1..MaxDocId

(* union is called on two posting lists, each sorted by document_id; the    *)
(* term frequency tells the postings of the first list from the second's.   *)
InitMerge ==
    /\ trie = {}
    /\ phase = "idle"
    /\ query = <<>>
    /\ options = NoOptions
    /\ opts = IdleOpts
    /\ head = <<>>
    /\ tail = <<>>
    /\ table = IdleTable
    /\ counter = 0
    /\ sieve = <<>>
    /\ stack = <<>>
    /\ result = <<>>
    /\ err = "none"
    /\ stream = <<>>
    /\ aborted = FALSE
    /\ runs = {}
    /\ \E A \in SUBSET DocIds, B \in SUBSET DocIds :
        /\ in1 = PostingList(A, 1)
        /\ in2 = PostingList(B, 2)
    /\ iter1 = in1
    /\ iter2 = in2
    /\ p1 = NoPosting
    /\ p2 = NoPosting
    /\ out = <<>>
    /\ mpc = "start"
    /\ CodecIdle

NextMerge ==
    \/ UnionStart
    \/ UnionLoop
    \/ UnionRest1
    \/ UnionRest2

(* The client iterates the generator until it is exhausted. *)
SpecMerge == InitMerge /\ [][NextMerge]_vars /\ WF_vars(NextMerge)

Ids(list) == {list[k].document_id : k \in 1..Len(list)}

(* C10: union of two lists, each strictly increasing by document_id.  What  *)
(* is yielded is strictly increasing by document_id; the generator          *)
(* terminates, and then the ids yielded are those of the two lists          *)
(* together, each yielded once and with the first list's posting when both  *)
(* lists hold the id.                                                       *)
C10_Union ==
    /\ [](\A k \in 1..(Len(out) - 1) : out[k].document_id < out[k + 1].document_id)
    /\ [](mpc = "done" =>
            /\ Ids(out) = Ids(in1) \cup Ids(in2)
            /\ Len(out) = Cardinality(Ids(in1) \cup Ids(in2))
            /\ \A k \in 1..Len(out) :
                  IF out[k].document_id \in Ids(in1)
                  THEN \E i \in 1..Len(in1) : out[k] = in1[i]
                  ELSE \E i \in 1..Len(in2) : out[k] = in2[i])
    /\ <>(mpc = "done")

(* C10's case: two lists that share an id and each hold an id of their own  *)
(* have been merged.                                                        *)
C10_Witness ==
    /\ mpc = "done"
    /\ Ids(in1) \cap Ids(in2) # {}
    /\ Ids(in1) \ Ids(in2) # {}
    /\ Ids(in2) \ Ids(in1) # {}
    /\ Len(out) > Len(in1)

----------------------------------------------------------------------------
(* PostingsMerger.difference. *)

(* Lines 121-128: the first posting of each list. *)
DifferenceStart ==
    /\ mpc = "start"
    /\ p1' = NextOf(iter1)
    /\ iter1' = RestOf(iter1)
    /\ p2' = NextOf(iter2)
    /\ iter2' = RestOf(iter2)
    /\ mpc' = "loop"
    /\ UNCHANGED <<out, in1, in2, searchVars, codecVars>>

DifferenceLoopKeepsShared ==
    /\ mpc = "loop"
    /\ p1 # NoPosting
    /\ p2 # NoPosting
    /\ IF p1[1].document_id <= p2[1].document_id
       THEN /\ out' = Append(out, p1[1])
            /\ p1' = NextOf(iter1)
            /\ iter1' = RestOf(iter1)
            /\ UNCHANGED <<p2, iter2>>
       ELSE /\ p2' = NextOf(iter2)
            /\ iter2' = RestOf(iter2)
            /\ UNCHANGED <<out, p1, iter1>>
    /\ UNCHANGED <<mpc, in1, in2, searchVars, codecVars>>

(* Lines 130-154: one round of the loop. *)
DifferenceLoop ==
    /\ mpc = "loop"
    /\ p1 # NoPosting
    /\ p2 # NoPosting
    /\ IF p1[1].document_id = p2[1].document_id
       THEN /\ p1' = NextOf(iter1)
            /\ iter1' = RestOf(iter1)
            /\ p2' = NextOf(iter2)
            /\ iter2' = RestOf(iter2)
            /\ UNCHANGED out
       ELSE IF p1[1].document_id < p2[1].document_id
       THEN /\ out' = Append(out, p1[1])
            /\ p1' = NextOf(iter1)
            /\ iter1' = RestOf(iter1)
            /\ UNCHANGED <<p2, iter2>>
       ELSE /\ p2' = NextOf(iter2)
            /\ iter2' = RestOf(iter2)
            /\ UNCHANGED <<out, p1, iter1>>
    /\ UNCHANGED <<mpc, in1, in2, searchVars, codecVars>>

(* Lines 157-159: the loop is over; what is left of the first list is       *)
(* yielded and the generator ends.                                          *)
DifferenceRest ==
    /\ mpc = "loop"
    /\ p1 = NoPosting \/ p2 = NoPosting
    /\ IF p1 # NoPosting
       THEN /\ out' = out \o p1 \o iter1
            /\ iter1' = <<>>
       ELSE UNCHANGED <<out, iter1>>
    /\ mpc' = "done"
    /\ UNCHANGED <<p1, p2, iter2, in1, in2, searchVars, codecVars>>

NextDifference ==
    \/ DifferenceStart
    \/ DifferenceLoop
    \/ DifferenceRest

(* difference is called on two sorted posting lists and iterated until it   *)
(* is exhausted.                                                            *)
SpecDifference ==
    InitMerge /\ [][NextDifference]_vars /\ WF_vars(NextDifference)

(* The postings of list whose document_id is not in ids, in list's order. *)
RECURSIVE Without(_, _)
Without(list, ids) ==
    IF list = <<>> THEN <<>>
    ELSE IF Head(list).document_id \in ids THEN Without(Tail(list), ids)
    ELSE <<Head(list)>> \o Without(Tail(list), ids)

(* C11: difference of two lists, each strictly increasing by document_id.   *)
(* No posting of the second list is ever yielded; the generator ends, and   *)
(* then what it yielded is exactly the postings of the first list whose     *)
(* document_id is not in the second, in the first list's order.             *)
C11_Difference ==
    /\ [](\A k \in 1..Len(out) :
            /\ \E i \in 1..Len(in1) : out[k] = in1[i]
            /\ \A i \in 1..Len(in2) : out[k] # in2[i])
    /\ [](mpc = "done" => out = Without(in1, Ids(in2)))
    /\ <>(mpc = "done")

(* C11's case: the lists share an id, each holds an id the other lacks,    *)
(* and the first list's own posting has been yielded.                       *)
C11_Witness ==
    /\ mpc = "done"
    /\ Ids(in1) \cap Ids(in2) # {}
    /\ Ids(in2) \ Ids(in1) # {}
    /\ out # <<>>
    /\ Len(out) < Len(in1)

----------------------------------------------------------------------------
(* VariableByteCodec.  A bitarray is a sequence of 0s and 1s; position k of  *)
(* the bitarray is element k + 1 of the sequence.                            *)

MaxDigits == 3        \* most base-128 digits of the number encoded
MaxPrior == 2         \* most bits in the destination before encode

RECURSIVE Pow2(_)
Pow2(k) == IF k = 0 THEN 1 ELSE 2 * Pow2(k - 1)

Reverse(q) == [k \in 1..Len(q) |-> q[Len(q) + 1 - k]]

RECURSIVE Flatten(_)
Flatten(qs) == IF qs = <<>> THEN <<>> ELSE Head(qs) \o Flatten(Tail(qs))

(* Lines 33-36: the base-128 digits of number, the lowest first. *)
RECURSIVE Segments(_)
Segments(n) == IF n > 0 THEN <<n % 128>> \o Segments(n \div 128) ELSE <<>>

MarkedLast(segments) == [segments EXCEPT ![Len(segments)] = @ + 128]

(* Line 37: the lowest digit carries the bit that ends the code. *)
Marked(segments) == [segments EXCEPT ![1] = @ + 128]

(* Lines 40-41: the eight bits of a segment, the highest first. *)
ByteBits(seg) == [k \in 1..8 |-> (seg \div Pow2(8 - k)) % 2]

(* Lines 27-41: the bits encode appends. *)
EncodedBits(n) ==
    IF n = 0 THEN <<1>> \o [k \in 1..7 |-> 0]
    ELSE Flatten([k \in 1..Len(Segments(n)) |->
                    ByteBits(Reverse(Marked(Segments(n)))[k])])

(* Lines 29 and 43: the number of bits encode returns. *)
EncodedLength(n) == IF n = 0 THEN 8 ELSE Len(Segments(n)) * 8

(* Lines 62-63: the seven low bits of the byte at start are shifted in. *)
RECURSIVE ShiftIn(_, _, _, _)
ShiftIn(source, start, num, bit) ==
    IF bit > 7 THEN num
    ELSE ShiftIn(source, start, num * 2 + source[start + bit + 1], bit + 1)

(* Lines 55-68: decode; reading past the end of source raises IndexError. *)
RECURSIVE DecodeLoop(_, _, _, _)
DecodeLoop(source, start, num, n_segments) ==
    IF start + 8 > Len(source) THEN <<"IndexError">>
    ELSE IF source[start + 1] = 1
    THEN <<ShiftIn(source, start, num, 1), (n_segments + 1) * 8>>
    ELSE DecodeLoop(source, start + 8, ShiftIn(source, start, num, 1),
                    n_segments + 1)

decode(source, start) == DecodeLoop(source, start, 0, 0)

(* Lines 19-43: encode(number, destination). *)
Encode ==
    /\ cpc = "start"
    /\ buffer' = buffer \o EncodedBits(number)
    /\ encoded' = EncodedLength(number)
    /\ cpc' = "encoded"
    /\ UNCHANGED <<number, prior, decoded, searchVars, mergeVars>>

(* Lines 46-68: decode(destination, s), s the length destination had. *)
Decode ==
    /\ cpc = "encoded"
    /\ decoded' = decode(buffer, Len(prior))
    /\ cpc' = "decoded"
    /\ UNCHANGED <<number, prior, buffer, encoded, searchVars, mergeVars>>

(* The numbers of the model: those with at most MaxDigits base-128 digits   *)
(* taken from the lowest, the highest and two middle digits.                *)
DigitValues == {0, 1, 64, 127}

RECURSIVE ValueOf(_)
ValueOf(digits) ==
    IF digits = <<>> THEN 0 ELSE Head(digits) + 128 * ValueOf(Tail(digits))

Numbers == {ValueOf(ds) : ds \in [1..MaxDigits -> DigitValues]}

Buffers == UNION {[1..k -> {0, 1}] : k \in 0..MaxPrior}

InitCodec ==
    /\ trie = {}
    /\ phase = "idle"
    /\ query = <<>>
    /\ options = NoOptions
    /\ opts = IdleOpts
    /\ head = <<>>
    /\ tail = <<>>
    /\ table = IdleTable
    /\ counter = 0
    /\ sieve = <<>>
    /\ stack = <<>>
    /\ result = <<>>
    /\ err = "none"
    /\ stream = <<>>
    /\ aborted = FALSE
    /\ runs = {}
    /\ MergeIdle
    /\ number \in Numbers
    /\ prior \in Buffers
    /\ buffer = prior
    /\ encoded = 0
    /\ decoded = <<>>
    /\ cpc = "start"

NextCodec ==
    \/ Encode
    \/ Decode

SpecCodec == InitCodec /\ [][NextCodec]_vars

(* The number of base-128 digits of n, 1 for 0: the least k >= 1 with       *)
(* n < 128^k.                                                               *)
RECURSIVE DigitsFrom(_, _, _)
DigitsFrom(n, k, limit) == IF n < limit THEN k ELSE DigitsFrom(n, k + 1, limit * 128)

Digits(n) == DigitsFrom(n, 1, 128)

----------------------------------------------------------------------------
(* C13: lower-bound pruning.  __dfs is never called on a child when the     *)
(* least value of the table column just updated for the child's character   *)
(* exceeds upper_bound: every call below the root starts with a column      *)
(* whose least value is within the bound.                                   *)
C13_LowerBoundPruning ==
    (phase = "search" /\ Len(stack) > 1 /\ Top.pc = "enter") =>
        min_possible_distance(table, Top.level) <= opts.upper_bound

----------------------------------------------------------------------------
(* The candidate a call of __dfs is entered with: the characters on the     *)
(* path from the anchored root to the call's node, then the padding the     *)
(* table was built with (line 92).                                          *)
EnteredWith(f) ==
    [k \in 1..CandidateLen |->
        IF k <= f.level THEN f.node[Len(head) + k] ELSE Pad]

(* C14: backtracking restores the table.  A call of __dfs at level L is     *)
(* entered with the candidate EnteredWith gives; where it returns (False    *)
(* straight after the callback, or True once the loop is over) and before   *)
(* every sibling edge it takes, the candidate holds at every position,      *)
(* those from L on among them, what it held when the call was entered.      *)
C14_BacktrackingRestores ==
    (phase = "search" /\ stack # <<>> /\ Top.pc \in {"enter", "loop"}) =>
        /\ Len(Top.node) = Len(head) + Top.level
        /\ table._candidate = EnteredWith(Top)

(* C14's case: below the root, a child's call returned False because the    *)
(* callback signalled stop, its character was put back, and a sibling edge  *)
(* is still to be taken.                                                    *)
C14_Witness ==
    /\ phase = "search"
    /\ stack # <<>>
    /\ Top.pc = "loop"
    /\ Top.level > 0
    /\ Top.todo # {}
    /\ Top.todo # transitions(Top.node)
    /\ aborted

====
